---- MODULE Spec2Model ----
(***************************************************************************)
(* Verification model of lexy's diagnostic types (lexy/error.hpp):        *)
(* lexy::error<Reader, Tag> in its four specialisations plus the tagged   *)
(* generic form, lexy::error_context<Production, Input>, and of the       *)
(* sample BT::convertFromString<Pose2D> (sample_nodes/movebase_node.h).   *)
(*                                                                         *)
(* An object is a record of the class's private members (the leading      *)
(* underscore of the C++ member names is dropped: _pos is pos).  The      *)
(* arguments a constructor was called with are kept in a history          *)
(* variable, and every accessor call records the value it returned.       *)
(***************************************************************************)
EXTENDS Integers, Sequences, FiniteSets, TLC

VARIABLES
    err,        \* the lexy::error object under inspection (its members)
    args,       \* the arguments its constructor was called with
    results,    \* accessor name -> set of values returned since construction
    repeated,   \* whether some accessor has been called a second time
    ctx,        \* the lexy::error_context object (its members)
    cargs,      \* the arguments its constructor was called with
    cresults,   \* accessor name -> set of values returned since construction
    key,        \* the StringView handed to convertFromString<Pose2D>
    outcome     \* what that call produced: a Pose2D or the exception thrown

vars == <<err, args, results, repeated, ctx, cargs, cresults, key, outcome>>
errVars == <<err, args, results>>
ctxVars == <<ctx, cargs, cresults>>
poseVars == <<key, outcome>>

(***************************************************************************)
(* Bounds                                                                  *)
(***************************************************************************)
MaxPos == 1         \* cursors (Reader::iterator) are 0..MaxPos
MaxLen == 2         \* longest literal / keyword array, in code units
MaxIdx == 2         \* largest index argument
MaxDepth == 3       \* deepest nesting of derived inputs
MaxKeyLen == 6      \* longest key handed to convertFromString<Pose2D>

Cursors == 0..MaxPos
CodeUnits == {"a", "b"}
NUL == "0"
Messages == {"m1", "m2"}
ClassNames == {"digit", "ASCII.alpha"}
Tags == {"tagA", "tagB"}

RECURSIVE SeqsUpTo(_, _)
SeqsUpTo(S, n) ==
    IF n = 0 THEN {<<>>}
    ELSE LET shorter == SeqsUpTo(S, n - 1)
         IN  shorter \cup {Append(s, c) : s \in shorter, c \in S}

\* the character arrays a const char_type* can point at
Buffers == SeqsUpTo(CodeUnits, MaxLen)

NoObject == [kind |-> "none"]
NoArgs == [ctor |-> "none"]

(***************************************************************************)
(* lexy::error<Reader, void>                                               *)
(***************************************************************************)
error_void_pos_noend(p, m) == [kind |-> "generic", pos |-> p, end |-> 0, msg |-> m]
error_void_pos(p, m) == [kind |-> "generic", pos |-> p, end |-> p, msg |-> m]

error_void_range_swapped(b, e, m) == [kind |-> "generic", pos |-> e, end |-> b, msg |-> m]
error_void_range(b, e, m) == [kind |-> "generic", pos |-> b, end |-> e, msg |-> m]

void_position(o) == o.pos
void_message(o) == o.msg
void_begin(o) == o.pos
void_end(o) == o.end

(***************************************************************************)
(* lexy::error<Reader, Tag>: the message is the tag's type name            *)
(***************************************************************************)
type_name(tag) == IF tag = "tagA" THEN "tagA_name" ELSE "tagB_name"

error_tag_pos(tag, p) == error_void_pos(p, type_name(tag))
error_tag_range(tag, b, e) == error_void_range(b, e, type_name(tag))

(***************************************************************************)
(* lexy::error<Reader, expected_literal>                                   *)
(***************************************************************************)
error_expected_literal_swapped(p, s, i, n) ==
    [kind |-> "literal", pos |-> p, str |-> s, idx |-> n, length |-> i]
error_expected_literal(p, s, i, n) ==
    [kind |-> "literal", pos |-> p, str |-> s, idx |-> i, length |-> n]

lit_position(o) == o.pos
lit_string(o) == o.str
lit_index_as_length(o) == o.length
lit_index(o) == o.idx
lit_length(o) == o.length

\* _str[_idx]: the read is unchecked.  Inside the array it yields that code
\* unit; outside it the behaviour is undefined and any value may come back.
lit_character_first(o) ==
    IF Len(o.str) > 0 THEN {o.str[1]} ELSE CodeUnits \cup {NUL}
lit_character(o) ==
    IF o.idx < Len(o.str) THEN {o.str[o.idx + 1]} ELSE CodeUnits \cup {NUL}

(***************************************************************************)
(* lexy::error<Reader, expected_keyword>                                   *)
(***************************************************************************)
error_expected_keyword_swapped(b, e, s, n) ==
    [kind |-> "keyword", begin |-> e, end |-> b, str |-> s, length |-> n]
error_expected_keyword(b, e, s, n) ==
    [kind |-> "keyword", begin |-> b, end |-> e, str |-> s, length |-> n]

kw_position(o) == o.begin
kw_begin(o) == o.begin
kw_end(o) == o.end
kw_string(o) == o.str
kw_length(o) == o.length

(***************************************************************************)
(* lexy::error<Reader, expected_char_class>                                *)
(***************************************************************************)
error_expected_char_class(p, n) == [kind |-> "char_class", pos |-> p, name |-> n]

cc_position(o) == o.pos
cc_name(o) == o.name

(***************************************************************************)
(* Construction and accessor calls on an error object                      *)
(***************************************************************************)
ErrAccessors ==
    {"position", "message", "begin", "end", "string", "index", "length",
     "character", "name"}

\* A behaviour follows one value, an error or an error context, from its
\* construction through the accessor calls made on it.
Construct(o, a) ==
    /\ err = NoObject
    /\ ctx = NoObject
    /\ err' = o
    /\ args' = a
    /\ UNCHANGED <<results, repeated, ctxVars, poseVars>>

NewGenericPos ==
    \E p \in Cursors, m \in Messages :
        Construct(error_void_pos(p, m), [ctor |-> "void_pos", pos |-> p, msg |-> m])

NewGenericRange ==
    \E b \in Cursors, e \in Cursors, m \in Messages :
        Construct(error_void_range(b, e, m),
                  [ctor |-> "void_range", begin |-> b, end |-> e, msg |-> m])

NewTaggedPos ==
    \E t \in Tags, p \in Cursors :
        Construct(error_tag_pos(t, p), [ctor |-> "tag_pos", tag |-> t, pos |-> p])

NewTaggedRange ==
    \E t \in Tags, b \in Cursors, e \in Cursors :
        Construct(error_tag_range(t, b, e),
                  [ctor |-> "tag_range", tag |-> t, begin |-> b, end |-> e])

\* str points at an array holding at least `length` code units; the index is
\* whatever the caller passes, the constructor looks at neither.
NewExpectedLiteral ==
    \E p \in Cursors, s \in Buffers, i \in 0..MaxIdx :
        \E n \in 0..Len(s) :
            Construct(error_expected_literal(p, s, i, n),
                      [ctor |-> "literal", pos |-> p, str |-> s, index |-> i,
                       length |-> n])

NewExpectedKeyword ==
    \E b \in Cursors, e \in Cursors, s \in Buffers :
        \E n \in 0..Len(s) :
            Construct(error_expected_keyword(b, e, s, n),
                      [ctor |-> "keyword", begin |-> b, end |-> e, str |-> s,
                       length |-> n])

NewExpectedCharClass ==
    \E p \in Cursors, n \in ClassNames :
        Construct(error_expected_char_class(p, n),
                  [ctor |-> "char_class", pos |-> p, name |-> n])

\* An accessor is a const member function: it returns a value and writes
\* nothing.
ReturnAndConsume(a, v) ==
    /\ results' = [results EXCEPT ![a] = @ \cup {v}]
    /\ repeated' = (repeated \/ results[a] # {})
    /\ err' = [kind |-> "consumed"]
    /\ UNCHANGED <<args, ctxVars, poseVars>>
Return(a, v) ==
    /\ results' = [results EXCEPT ![a] = @ \cup {v}]
    /\ repeated' = (repeated \/ results[a] # {})
    /\ UNCHANGED <<err, args, ctxVars, poseVars>>

CallPosition ==
    \/ err.kind = "generic" /\ Return("position", void_position(err))
    \/ err.kind = "literal" /\ Return("position", lit_position(err))
    \/ err.kind = "keyword" /\ Return("position", kw_position(err))
    \/ err.kind = "char_class" /\ Return("position", cc_position(err))

CallMessage == err.kind = "generic" /\ Return("message", void_message(err))

CallBegin ==
    \/ err.kind = "generic" /\ Return("begin", void_begin(err))
    \/ err.kind = "keyword" /\ Return("begin", kw_begin(err))

CallEnd ==
    \/ err.kind = "generic" /\ Return("end", void_end(err))
    \/ err.kind = "keyword" /\ Return("end", kw_end(err))

CallString ==
    \/ err.kind = "literal" /\ Return("string", lit_string(err))
    \/ err.kind = "keyword" /\ Return("string", kw_string(err))

CallIndex == err.kind = "literal" /\ Return("index", lit_index(err))

CallLength ==
    \/ err.kind = "literal" /\ Return("length", lit_length(err))
    \/ err.kind = "keyword" /\ Return("length", kw_length(err))

CallCharacter ==
    /\ err.kind = "literal"
    /\ \E c \in lit_character(err) : Return("character", c)

CallName == err.kind = "char_class" /\ Return("name", cc_name(err))

(***************************************************************************)
(* Inputs.  An input type either has parent_input() or has not; a derived *)
(* input of nesting level k > 0 hands out the input of level k - 1, the   *)
(* input of level 0 is the outermost one and has no parent_input().       *)
(***************************************************************************)
ChainInputs ==
    {i \in [chain : 0..MaxDepth, level : 0..MaxDepth] : i.level <= i.chain}

has_parent_input(i) == i.level > 0

parent_input(i) == [chain |-> i.chain, level |-> i.level - 1]

(***************************************************************************)
(* Productions and lexy::production_info                                   *)
(***************************************************************************)
Productions == {"statement", "expression", "block"}

production_name(P) ==
    CASE P = "statement" -> "Statement"
      [] P = "expression" -> "Expression"
      [] OTHER -> "Block"

production_info(P) == [name |-> production_name(P)]

ProductionInfos ==
    {production_info(P) : P \in Productions} \cup {[name |-> "Other"]}

(***************************************************************************)
(* lexy::error_context<void, Input> and lexy::error_context<Production,   *)
(* Input>                                                                  *)
(***************************************************************************)
error_context_void_unnamed(info, i, p) ==
    [kind |-> "context", Production |-> "void", input |-> i, pos |-> p,
     production |-> "Other"]
error_context_void(info, i, p) ==
    [kind |-> "context", Production |-> "void", input |-> i, pos |-> p,
     production |-> info.name]

error_context_input_self(c) == c.input
error_context_input(c) ==
    IF has_parent_input(c.input) THEN parent_input(c.input) ELSE c.input

error_context_production(c) == c.production

error_context_position_zero(c) == 0
error_context_position(c) == c.pos

\* The derived class passes its Production on to the base, which takes a
\* production_info, and remembers the Production as template argument.  Its
\* other constructor, (input, pos), delegates to (input, Production{}, pos), an
\* argument order the class has no constructor for; it cannot be instantiated
\* and constructs nothing.
error_context_static(P, i, p) ==
    [error_context_void(production_info(P), i, p) EXCEPT !.Production = P]

error_context_static_production(c) == production_name(c.Production)

CtxAccessors == {"input", "production", "position", "static_production"}

ConstructContext(o, a) ==
    /\ ctx = NoObject
    /\ err = NoObject
    /\ ctx' = o
    /\ cargs' = a
    /\ UNCHANGED <<cresults, repeated, errVars, poseVars>>

NewContext ==
    \E info \in ProductionInfos, i \in ChainInputs, p \in Cursors :
        ConstructContext(error_context_void(info, i, p),
                         [ctor |-> "void", input |-> i, pos |-> p,
                          production |-> info])

NewStaticContext ==
    \E P \in Productions, i \in ChainInputs, p \in Cursors :
        ConstructContext(error_context_static(P, i, p),
                         [ctor |-> "static", Production |-> P, input |-> i,
                          pos |-> p])

ContextReturn(a, v) ==
    /\ cresults' = [cresults EXCEPT ![a] = @ \cup {v}]
    /\ repeated' = (repeated \/ cresults[a] # {})
    /\ UNCHANGED <<ctx, cargs, errVars, poseVars>>

CallInput ==
    ctx.kind = "context" /\ ContextReturn("input", error_context_input(ctx))

\* production() of the base class, e.g. through a reference to the base
CallProduction ==
    ctx.kind = "context" /\ ContextReturn("production", error_context_production(ctx))

\* production() of error_context<Production, Input>, which hides the base's
CallStaticProduction ==
    /\ ctx.kind = "context"
    /\ ctx.Production # "void"
    /\ ContextReturn("static_production", error_context_static_production(ctx))

CallContextPosition ==
    ctx.kind = "context" /\ ContextReturn("position", error_context_position(ctx))

(***************************************************************************)
(* BT::convertFromString<Pose2D>                                           *)
(***************************************************************************)
Digits == {"1", "2"}
KeyChars == Digits \cup {";", "x"}
Keys == SeqsUpTo(KeyChars, MaxKeyLen)

DigitValue(c) == IF c = "1" THEN 1 ELSE 2

\* BT::splitString: the pieces between delimiters; nothing follows a trailing
\* delimiter and the empty string has no piece.
RECURSIVE TakeUntil(_, _)
TakeUntil(s, d) ==
    IF s = <<>> \/ Head(s) = d THEN <<>> ELSE <<Head(s)>> \o TakeUntil(Tail(s), d)

RECURSIVE splitString(_, _)
splitString(s, d) ==
    IF s = <<>> THEN <<>>
    ELSE LET piece == TakeUntil(s, d)
             rest == SubSeq(s, Len(piece) + 2, Len(s))
         IN  <<piece>> \o splitString(rest, d)

\* BT::convertFromString<double>: the number the leading digits spell, an
\* exception when the text does not start with a number.
RECURSIVE DigitsValue(_, _)
DigitsValue(s, acc) ==
    IF s = <<>> \/ Head(s) \notin Digits THEN acc
    ELSE DigitsValue(Tail(s), 10 * acc + DigitValue(Head(s)))

convertFromString_double(s) ==
    IF s = <<>> \/ Head(s) \notin Digits
    THEN [ok |-> FALSE, val |-> 0]
    ELSE [ok |-> TRUE, val |-> DigitsValue(s, 0)]

convertFromString_Pose2D_yx(k) ==
    LET parts == splitString(k, ";")
    IN  IF Len(parts) # 3
        THEN [status |-> "RuntimeError", what |-> "invalid input)"]
        ELSE LET x == convertFromString_double(parts[1])
                 y == convertFromString_double(parts[2])
                 theta == convertFromString_double(parts[3])
             IN  IF x.ok /\ y.ok /\ theta.ok
                 THEN [status |-> "Pose2D", x |-> y.val, y |-> x.val,
                       theta |-> theta.val]
                 ELSE [status |-> "ConversionError"]
convertFromString_Pose2D(k) ==
    LET parts == splitString(k, ";")
    IN  IF Len(parts) # 3
        THEN [status |-> "RuntimeError", what |-> "invalid input)"]
        ELSE LET x == convertFromString_double(parts[1])
                 y == convertFromString_double(parts[2])
                 theta == convertFromString_double(parts[3])
             IN  IF x.ok /\ y.ok /\ theta.ok
                 THEN [status |-> "Pose2D", x |-> x.val, y |-> y.val,
                       theta |-> theta.val]
                 ELSE [status |-> "ConversionError"]

Convert ==
    /\ outcome.status = "none"
    /\ outcome' = convertFromString_Pose2D(key)
    /\ UNCHANGED <<key, repeated, errVars, ctxVars>>

(***************************************************************************)
(* Specifications                                                          *)
(***************************************************************************)
Init ==
    /\ err = NoObject
    /\ args = NoArgs
    /\ results = [a \in ErrAccessors |-> {}]
    /\ repeated = FALSE
    /\ ctx = NoObject
    /\ cargs = NoArgs
    /\ cresults = [a \in CtxAccessors |-> {}]
    /\ key = <<>>
    /\ outcome = [status |-> "none"]

\* one error value or one error context is constructed, then read through
\* its accessors
Next ==
    \/ NewGenericPos
    \/ NewGenericRange
    \/ NewTaggedPos
    \/ NewTaggedRange
    \/ NewExpectedLiteral
    \/ NewExpectedKeyword
    \/ NewExpectedCharClass
    \/ CallPosition
    \/ CallMessage
    \/ CallBegin
    \/ CallEnd
    \/ CallString
    \/ CallIndex
    \/ CallLength
    \/ CallCharacter
    \/ CallName
    \/ NewContext
    \/ NewStaticContext
    \/ CallInput
    \/ CallProduction
    \/ CallStaticProduction
    \/ CallContextPosition

Spec == Init /\ [][Next]_vars

\* convertFromString<Pose2D>: applied once to a key
PoseInit ==
    /\ err = NoObject
    /\ args = NoArgs
    /\ results = [a \in ErrAccessors |-> {}]
    /\ repeated = FALSE
    /\ ctx = NoObject
    /\ cargs = NoArgs
    /\ cresults = [a \in CtxAccessors |-> {}]
    /\ key \in Keys
    /\ outcome = [status |-> "none"]

PoseNext == Convert

PoseSpec == PoseInit /\ [][PoseNext]_vars

(***************************************************************************)
(* Properties                                                              *)
(***************************************************************************)
\* every value accessor a returned so far is v
Returned(a, v) == \A r \in results[a] : r = v
ContextReturned(a, v) == \A r \in cresults[a] : r = v

FromPos == args.ctor \in {"void_pos", "tag_pos"}
FromRange == args.ctor \in {"void_range", "tag_range"}

C2_PlainContextRoundTrip ==
    (cargs.ctor # "none" /\ cargs.input.level = 0) =>
        /\ ContextReturned("input", cargs.input)
        /\ ContextReturned("position", cargs.pos)
        /\ cargs.ctor = "void" => ContextReturned("production", cargs.production.name)
        /\ cargs.ctor = "static" =>
               ContextReturned("production", production_name(cargs.Production))

C2_Witness ==
    /\ cargs.ctor = "void"
    /\ cargs.input.level = 0
    /\ cargs.pos = 1
    /\ cresults["input"] # {}
    /\ cresults["production"] # {}
    /\ cresults["position"] # {}

\* C3: each variant's accessors return the constructor's arguments.
C3_VariantFidelity ==
    /\ args.ctor = "void_pos" =>
           /\ Returned("position", args.pos)
           /\ Returned("begin", args.pos)
           /\ Returned("end", args.pos)
           /\ Returned("message", args.msg)
    /\ args.ctor = "void_range" =>
           /\ Returned("position", args.begin)
           /\ Returned("begin", args.begin)
           /\ Returned("end", args.end)
           /\ Returned("message", args.msg)
    /\ args.ctor = "literal" =>
           /\ Returned("position", args.pos)
           /\ Returned("string", args.str)
           /\ Returned("index", args.index)
           /\ Returned("length", args.length)
    /\ args.ctor = "keyword" =>
           /\ Returned("begin", args.begin)
           /\ Returned("end", args.end)
           /\ Returned("string", args.str)
           /\ Returned("length", args.length)
    /\ args.ctor = "char_class" =>
           /\ Returned("position", args.pos)
           /\ Returned("name", args.name)

C3_Witness ==
    /\ args.ctor = "literal"
    /\ args.index # args.length
    /\ args.pos = 1
    /\ args.str # <<>>
    /\ \A a \in {"position", "string", "index", "length"} : results[a] # {}

\* C4 as stated: every expected_literal error has index() < length().
C4_IndexBelowLength ==
    err.kind = "literal" => lit_index(err) < lit_length(err)

\* C4 amended: the constructor checks nothing and keeps both arguments, so
\* index() < length() holds for exactly the values constructed with
\* index < length.
C4_IndexBelowLengthIffPassed ==
    err.kind = "literal" =>
        (lit_index(err) < lit_length(err)) <=> (args.index < args.length)

C4_Witness ==
    /\ err.kind = "literal"
    /\ args.index < args.length
    /\ results["index"] # {}
    /\ results["length"] # {}

\* C5 as stated: every expected_keyword error and every generic error built
\* from two cursors has begin() <= end().
C5_BeginNotAfterEnd ==
    /\ err.kind = "keyword" => kw_begin(err) <= kw_end(err)
    /\ (err.kind = "generic" /\ FromRange) => void_begin(err) <= void_end(err)

\* C5 amended: the constructors check nothing and keep both cursors, so
\* begin() <= end() holds for exactly the values constructed with
\* begin <= end.
C5_BeginNotAfterEndIffPassed ==
    /\ err.kind = "keyword" =>
           (kw_begin(err) <= kw_end(err)) <=> (args.begin <= args.end)
    /\ (err.kind = "generic" /\ FromRange) =>
           (void_begin(err) <= void_end(err)) <=> (args.begin <= args.end)

C5_Witness ==
    /\ err.kind = "keyword"
    /\ args.begin < args.end
    /\ results["begin"] # {}
    /\ results["end"] # {}

\* C6: with index() < length(), character() is the code unit of string() at
\* offset index(); the read is not checked against length(), so any index
\* inside the array yields the code unit there.
C6_CharacterIsStringAtIndex ==
    err.kind = "literal" =>
        /\ lit_index(err) < lit_length(err) =>
               Returned("character", lit_string(err)[lit_index(err) + 1])
        /\ args.index < Len(args.str) =>
               Returned("character", args.str[args.index + 1])

C6_Witness ==
    /\ err.kind = "literal"
    /\ args.index = 1
    /\ args.length = 2
    /\ args.str[1] # args.str[2]
    /\ results["character"] # {}

\* C7: a generic error built from a single position, tagged or not, has
\* end() = begin() = position() = that position.
C7_PointErrorHasEmptySpan ==
    FromPos =>
        /\ Returned("position", args.pos)
        /\ Returned("begin", args.pos)
        /\ Returned("end", args.pos)

C7_Witness ==
    /\ args.ctor = "tag_pos"
    /\ args.pos = 1
    /\ results["position"] # {}
    /\ results["begin"] # {}
    /\ results["end"] # {}

\* C8: a context of a statically known production P returns, from the static
\* production() and from the base's production(), the text the type-erased
\* context constructed with P's name returns.
C8_StaticNameIsDynamicName ==
    cargs.ctor = "static" =>
        LET erased == error_context_void([name |-> production_name(cargs.Production)],
                                         cargs.input, cargs.pos)
        IN  /\ ContextReturned("static_production", error_context_production(erased))
            /\ ContextReturned("production", error_context_production(erased))

C8_Witness ==
    /\ cargs.ctor = "static"
    /\ cargs.Production = "expression"
    /\ cresults["static_production"] # {}
    /\ cresults["production"] # {}

\* no accessor call changes a member of the value it is called on
AccessorsKeepMembers ==
    /\ err # NoObject => err' = err
    /\ ctx # NoObject => ctx' = ctx

\* the read character() makes lies inside the array string() points at
CharacterInBounds == err.kind = "literal" /\ lit_index(err) < Len(lit_string(err))

C10_PoseFromThreeParts ==
    outcome.status # "none" =>
        LET parts == splitString(key, ";")
        IN  /\ Len(parts) # 3 => outcome.status = "RuntimeError"
            /\ Len(parts) = 3 =>
                   LET c == [i \in 1..3 |-> convertFromString_double(parts[i])]
                   IN  IF \A i \in 1..3 : c[i].ok
                       THEN outcome = [status |-> "Pose2D", x |-> c[1].val,
                                       y |-> c[2].val, theta |-> c[3].val]
                       ELSE outcome.status = "ConversionError"

C10_Witness ==
    /\ outcome.status = "Pose2D"
    /\ outcome.x = 12
    /\ outcome.y = 1
    /\ outcome.theta = 2

====
